---- MODULE Spec2Model ----
(***************************************************************************)
(* Model of GetGithubRepoCode.py: Tools.fetch_github_code and its nested   *)
(* helpers.  A Python string is modelled as a sequence of tokens; a token  *)
(* is an indivisible run of characters ("tree", ".git", "%2F", "/", ...).  *)
(* Every string function of the source (strip, split, join, unquote,       *)
(* urlparse, splitext, lower, relpath, basename, dirname) is modelled by   *)
(* what it does on token sequences.                                        *)
(***************************************************************************)
EXTENDS Integers, Sequences, FiniteSets, TLC

VARIABLES
    url,            \* repo_url, the argument of fetch_github_code
    gen,            \* the pieces repo_url was assembled from
    pc,             \* position of control inside fetch_github_code
    parsed,         \* result of parse_github_url
    default_branch, \* result of get_default_branch
    requests,       \* log of the external HTTP requests issued so far
    tree,           \* directory listings the contents API has served
    tmpdir,         \* "none", "exists" or "removed"
    files,          \* files unpacked into the temporary directory
    todo,           \* pending work of fetch_code_from_directory
    code_files,     \* collected (rel_path, download_url / full_path) pairs
    sections,       \* Markdown sections appended to markdown_content
    result          \* return value of fetch_github_code

vars == <<url, gen, pc, parsed, default_branch, requests, tree, tmpdir,
          files, todo, code_files, sections, result>>

(***************************************************************************)
(* Bounds                                                                  *)
(***************************************************************************)
MaxParts == 5

(***************************************************************************)
(* Generic string helpers (Python str methods on token sequences)          *)
(***************************************************************************)
Slash == "/"

Last(s) == s[Len(s)]

Front(s) == SubSeq(s, 1, Len(s) - 1)

\* index of the first token of s that lies in set T, or Len(s)+1
RECURSIVE FindFirst(_, _, _)
FindFirst(s, T, i) ==
    IF i > Len(s) THEN Len(s) + 1
    ELSE IF s[i] \in T THEN i
    ELSE FindFirst(s, T, i + 1)

\* str.lstrip("/"), str.rstrip("/"), str.strip("/")
RECURSIVE LStrip(_)
LStrip(s) == IF s # <<>> /\ Head(s) = Slash THEN LStrip(Tail(s)) ELSE s

RECURSIVE RStrip(_)
RStrip(s) == IF s # <<>> /\ Last(s) = Slash THEN RStrip(Front(s)) ELSE s

Strip(s) == RStrip(LStrip(s))

\* str.split("/"): "".split("/") = [""]
RECURSIVE Split(_)
Split(s) ==
    LET i == FindFirst(s, {Slash}, 1)
    IN  IF i > Len(s) THEN <<s>>
        ELSE <<SubSeq(s, 1, i - 1)>> \o Split(SubSeq(s, i + 1, Len(s)))

\* "/".join(segs)
RECURSIVE Join(_)
Join(segs) ==
    IF segs = <<>> THEN <<>>
    ELSE IF Len(segs) = 1 THEN segs[1]
    ELSE segs[1] \o <<Slash>> \o Join(Tail(segs))

\* urllib.parse.unquote: a %XX escape becomes the character it encodes
UnquoteTok(t) ==
    CASE t = "%2F" -> "/"
      [] t = "%41" -> "A"
      [] OTHER -> t

UnquoteNone(s) == s

Unquote(s) == [i \in 1..Len(s) |-> UnquoteTok(s[i])]

(***************************************************************************)
(* urllib.parse.urlparse, as far as parse_github_url uses it               *)
(***************************************************************************)
SchemeTokens == {"https:", "http:"}

UrlParse(u) ==
    LET hasScheme == u # <<>> /\ Head(u) \in SchemeTokens
        rest == IF hasScheme THEN Tail(u) ELSE u
        hasNetloc == Len(rest) >= 2 /\ rest[1] = Slash /\ rest[2] = Slash
        afterSl == IF hasNetloc THEN SubSeq(rest, 3, Len(rest)) ELSE rest
        d == FindFirst(afterSl, {"/", "?", "#"}, 1)
        netloc == IF hasNetloc THEN SubSeq(afterSl, 1, d - 1) ELSE <<>>
        tail == IF hasNetloc THEN SubSeq(afterSl, d, Len(afterSl)) ELSE rest
        q == FindFirst(tail, {"?", "#"}, 1)
    IN  [scheme |-> IF hasScheme THEN Head(u) ELSE "",
         netloc |-> netloc,
         path   |-> SubSeq(tail, 1, q - 1)]

(***************************************************************************)
(* parse_github_url                                                        *)
(***************************************************************************)
\* the four ValueError messages of parse_github_url (ASCII tags)
ErrNotGithub == "URL must be a GitHub.com address"
ErrTooShort == "invalid GitHub repository URL"
ErrUnknownType == "unknown GitHub URL type"
ErrStructure == "unparseable GitHub URL structure"

InvalidURL == {ErrNotGithub, ErrTooShort, ErrUnknownType, ErrStructure}

ParseOk(user, repo, type, branch, path) ==
    [ok |-> TRUE, user |-> user, repo |-> repo, type |-> type,
     branch |-> branch, path |-> path, err |-> ""]

ParseErr(msg) ==
    [ok |-> FALSE, user |-> <<>>, repo |-> <<>>, type |-> "",
     branch |-> <<>>, path |-> <<>>, err |-> msg]

\* ^git@github\.com:([^/]+)/([^/]+?)(?:\.git)?/?$
SshMatch(u) ==
    LET body == Tail(u)
        b == IF body # <<>> /\ Last(body) = Slash THEN Front(body) ELSE body
        segs == Split(b)
    IN  /\ u # <<>>
        /\ Head(u) = "git@github.com:"
        /\ Len(segs) = 2
        /\ segs[1] # <<>>
        /\ segs[2] # <<>>

SshGroups(u) ==
    LET body == Tail(u)
        b == IF Last(body) = Slash THEN Front(body) ELSE body
        segs == Split(b)
        r == segs[2]
    IN  <<segs[1], IF Len(r) > 1 /\ Last(r) = ".git" THEN Front(r) ELSE r>>

NetlocOkSuffix(netloc) == netloc # <<>> /\ Last(netloc) = "github.com"

NetlocOk(netloc) == netloc = <<"github.com">>

\* repo[:-4] if repo.endswith(".git") else repo
StripGit(repo) ==
    IF repo # <<>> /\ Last(repo) = ".git" THEN Front(repo) ELSE repo

ParseGithubUrl(u) ==
    IF SshMatch(u)
    THEN ParseOk(SshGroups(u)[1], SshGroups(u)[2], "repo", <<>>, <<>>)
    ELSE
    LET parsed_url == UrlParse(u)
        path == Unquote(parsed_url.path)
        path_parts == Split(Strip(path))
    IN  IF ~NetlocOk(parsed_url.netloc) THEN ParseErr(ErrNotGithub)
        ELSE IF Len(path_parts) < 2 THEN ParseErr(ErrTooShort)
        ELSE
        LET user == path_parts[1]
            repo == StripGit(path_parts[2])
        IN  IF Len(path_parts) = 2
            THEN ParseOk(user, repo, "repo", <<>>, <<>>)
            ELSE IF Len(path_parts) >= 4
            THEN LET indicator == path_parts[3]
                     branch == path_parts[4]
                     sub_path == IF Len(path_parts) > 4
                                 THEN Join(SubSeq(path_parts, 5, Len(path_parts)))
                                 ELSE <<>>
                 IN  IF indicator = <<"tree">>
                     THEN ParseOk(user, repo, "dir", branch, sub_path)
                     ELSE IF indicator = <<"blob">>
                     THEN ParseOk(user, repo, "file", branch, sub_path)
                     ELSE ParseErr(ErrUnknownType)
            ELSE ParseErr(ErrStructure)

(***************************************************************************)
(* os.path functions (posixpath) on token sequences                        *)
(***************************************************************************)
\* index of the last token of s that lies in set T, or 0
RECURSIVE FindLast(_, _, _)
FindLast(s, T, i) ==
    IF i < 1 THEN 0
    ELSE IF s[i] \in T THEN i
    ELSE FindLast(s, T, i - 1)

Basename(p) == SubSeq(p, FindLast(p, {Slash}, Len(p)) + 1, Len(p))

Dirname(p) ==
    LET head == SubSeq(p, 1, FindLast(p, {Slash}, Len(p)))
    IN  IF head # <<>> /\ LStrip(head) # <<>> THEN RStrip(head) ELSE head

PathJoin(a, b) ==
    IF b # <<>> /\ Head(b) = Slash THEN b
    ELSE IF a = <<>> \/ Last(a) = Slash THEN a \o b
    ELSE a \o <<Slash>> \o b

\* TRUE iff some token of p in positions from..to-1 is not a dot
RECURSIVE HasNonDot(_, _, _)
HasNonDot(p, from, to) ==
    IF from >= to THEN FALSE
    ELSE IF p[from] # "." THEN TRUE
    ELSE HasNonDot(p, from + 1, to)

\* os.path.splitext: <<root, ext>>; leading dots of the name start no extension
Splitext(p) ==
    LET sepIndex == FindLast(p, {Slash}, Len(p))
        dotIndex == FindLast(p, {"."}, Len(p))
    IN  IF dotIndex > sepIndex /\ HasNonDot(p, sepIndex + 1, dotIndex)
        THEN <<SubSeq(p, 1, dotIndex - 1), SubSeq(p, dotIndex, Len(p))>>
        ELSE <<p, <<>>>>

\* str.lower
LowerTok(t) ==
    CASE t = "PY" -> "py"
      [] t = "B" -> "b"
      [] t = "X" -> "x"
      [] t = "A" -> "a"
      [] OTHER -> t

Lower(s) == [i \in 1..Len(s) |-> LowerTok(s[i])]

\* the non-empty components of a path
Components(p) == SelectSeq(Split(p), LAMBDA c : c # <<>>)

RECURSIVE CommonLen(_, _)
CommonLen(a, b) ==
    IF a = <<>> \/ b = <<>> \/ Head(a) # Head(b) THEN 0
    ELSE 1 + CommonLen(Tail(a), Tail(b))

\* os.path.relpath(path, start) for two paths under the same directory
Relpath(path, start) ==
    LET start_list == Components(start)
        path_list == Components(path)
        i == CommonLen(start_list, path_list)
        ups == [k \in 1..(Len(start_list) - i) |-> <<".", ".">>]
        rel_list == ups \o SubSeq(path_list, i + 1, Len(path_list))
    IN  IF rel_list = <<>> THEN <<".">> ELSE Join(rel_list)

(***************************************************************************)
(* language_mapping and supported_extensions                               *)
(***************************************************************************)
language_mapping ==
    (<<".", "py">> :> "python") @@ (<<".", "c">> :> "c") @@
    (<<".", "cpp">> :> "cpp") @@ (<<".", "h">> :> "c") @@
    (<<".", "hpp">> :> "cpp") @@ (<<".", "java">> :> "java") @@
    (<<".", "js">> :> "javascript") @@ (<<".", "ts">> :> "typescript") @@
    (<<".", "rb">> :> "ruby") @@ (<<".", "go">> :> "go") @@
    (<<".", "cs">> :> "csharp") @@ (<<".", "swift">> :> "swift") @@
    (<<".", "kt">> :> "kotlin") @@ (<<".", "php">> :> "php") @@
    (<<".", "rs">> :> "rust") @@ (<<".", "html">> :> "html") @@
    (<<".", "css">> :> "css") @@ (<<".", "md">> :> "markdown") @@
    (<<".", "yaml">> :> "yaml") @@ (<<".", "json">> :> "json")

supported_extensions == DOMAIN language_mapping

(***************************************************************************)
(* Input URLs: a prefix (scheme and host), path segments joined by "/",   *)
(* and a tail                                                              *)
(***************************************************************************)
HttpsGithub == <<"https:", "/", "/", "github.com", "/">>
HttpGithub == <<"http:", "/", "/", "github.com", "/">>
HttpsGitlab == <<"https:", "/", "/", "gitlab.com", "/">>
HttpsWwwGithub == <<"https:", "/", "/", "www.", "github.com", "/">>
NoScheme == <<"github.com", "/">>
SshPrefix == <<"git@github.com:">>

Prefixes == {HttpsGithub, HttpGithub, HttpsGitlab, HttpsWwwGithub, NoScheme,
             SshPrefix}

SegOpts == {<<"a">>, <<"r", ".git">>, <<"tree">>, <<"blob">>,
            <<"b", "%2F", "%41">>, <<>>}

Trails == {<<>>, <<"/">>, <<"?", "q">>}

BuildUrl(g) == g.prefix \o Join(g.parts) \o g.trail

Gens ==
    [prefix : Prefixes,
     parts : UNION {[1..n -> SegOpts] : n \in 0..MaxParts},
     trail : Trails]

(***************************************************************************)
(* fetch_github_code: initial state and step 1 (parse the URL)             *)
(***************************************************************************)
NoResult == [kind |-> "none", handler |-> "", text |-> ""]

ErrorResult(handler, text) ==
    [kind |-> "error", handler |-> handler, text |-> text]

MessageResult(text) == [kind |-> "message", handler |-> "", text |-> text]

MarkdownResult == [kind |-> "markdown", handler |-> "", text |-> ""]

NotParsed == ParseErr("not parsed")

InitWith(G) ==
    /\ gen \in G
    /\ url = BuildUrl(gen)
    /\ pc = "start"
    /\ parsed = NotParsed
    /\ default_branch = ""
    /\ requests = <<>>
    /\ tree = <<>>
    /\ tmpdir = "none"
    /\ files = <<>>
    /\ todo = <<>>
    /\ code_files = <<>>
    /\ sections = <<>>
    /\ result = NoResult

\* the pseudo item that stands for the outermost call of
\* fetch_code_from_directory
RootCall(directory_path) ==
    [type |-> "call", name |-> <<>>, path |-> directory_path,
     parent |-> directory_path]

PcAfterParse(type) ==
    CASE type = "repo" -> "get_default_branch"
      [] type = "dir" -> "fetch_dir"
      [] type = "file" -> "fetch_file"
      [] OTHER -> "done"

\* lines 295-300: parse_github_url under the first try/except ValueError
Parse ==
    /\ pc = "start"
    /\ parsed' = ParseGithubUrl(url)
    /\ IF parsed'.ok
       THEN /\ pc' = PcAfterParse(parsed'.type)
            /\ result' = result
            /\ todo' = IF parsed'.type = "dir"
                       THEN <<RootCall(parsed'.path)>>
                       ELSE todo
       ELSE /\ pc' = "done"
            /\ result' = ErrorResult("parse", parsed'.err)
            /\ todo' = todo
    /\ UNCHANGED <<url, gen, default_branch, requests, tree, tmpdir, files,
                   code_files, sections>>

InitParse == InitWith(Gens)

NextParse == Parse

SpecParse == InitParse /\ [][NextParse]_vars

(***************************************************************************)
(* The external world: HTTP outcomes, the contents API, the archive        *)
(***************************************************************************)
MaxDirs == 2

Request(kind, target, ok, resp) ==
    [kind |-> kind, target |-> target, ok |-> ok, resp |-> resp]

\* requests.get either returns status 200 ("ok"), returns another status
\* ("status"), or raises ("transport")
HttpOutcomes == {"ok", "status", "transport"}

X_PY == <<"X", ".", "PY">>
Z_EXE == <<"z", ".", "exe">>
LIB == <<"lib">>
SUB == <<"sub">>

Item(type, name, directory_path) ==
    [type |-> type, name |-> name,
     path |-> IF directory_path = <<>> THEN name
              ELSE directory_path \o <<Slash>> \o name,
     parent |-> directory_path]

Opt(x) == {<<>>, <<x>>}

\* the JSON arrays the contents API may serve for directory_path, entries
\* sorted by name, holding at most maxd subdirectories
Listings(directory_path, maxd) ==
    LET lib == Item("dir", LIB, directory_path)
        sub == Item("dir", SUB, directory_path)
        dirs == {ds \in {<<>>, <<lib>>, <<sub>>, <<lib, sub>>} :
                    Len(ds) <= maxd}
    IN  {a \o ds \o d :
            a \in Opt(Item("file", X_PY, directory_path)),
            ds \in dirs,
            d \in Opt(Item("file", Z_EXE, directory_path))}

DirCount ==
    Cardinality({pi \in (DOMAIN tree) \X (1..4) :
                    /\ pi[2] <= Len(tree[pi[1]])
                    /\ tree[pi[1]][pi[2]].type = "dir"})

\* the archive's files in os.walk order, each with the encoding of its bytes
ExtractRoot == <<"/", "tmp", "/", "r-main">>

LocalFile(rel, enc) == [rel |-> rel, enc |-> enc]

Archives ==
    {a \o b \o c :
        a \in {<<>>} \cup {<<LocalFile(<<"a", ".", "py">>, e)>> :
                              e \in {"utf8", "latin1"}},
        b \in {<<>>} \cup {<<LocalFile(<<"src", "/", "B", ".", "PY">>, e)>> :
                              e \in {"utf8", "latin1"}},
        c \in Opt(LocalFile(<<"bin", "/", "t", ".", "exe">>, "latin1"))}

(***************************************************************************)
(* The temporary directory of the with block (lines 308-337)               *)
(***************************************************************************)
InWithBlockNoCleanup(p) == TRUE

InWithBlockUntilFind(p) == p \in {"download_zip", "extract_zip"}

\* the positions of control that lie inside the with block
InWithBlock(p) == p \in {"download_zip", "extract_zip", "render"}

\* TemporaryDirectory.__exit__ removes the directory when control leaves
ExitTmp(t, p) ==
    IF t = "none" THEN "none"
    ELSE IF InWithBlock(p) THEN "exists"
    ELSE "removed"

(***************************************************************************)
(* Repository mode                                                         *)
(***************************************************************************)
\* lines 100-114 and 305-308
GetDefaultBranch ==
    /\ pc = "get_default_branch"
    /\ \E outcome \in HttpOutcomes, b \in {"main", "master"} :
        /\ requests' = Append(requests,
                Request("repo_meta", parsed.user \o <<Slash>> \o parsed.repo,
                        outcome = "ok", outcome))
        /\ IF outcome = "ok"
           THEN /\ default_branch' = b
                /\ tmpdir' = "exists"
                /\ pc' = "download_zip"
                /\ result' = result
           ELSE /\ b = "main"
                /\ default_branch' = default_branch
                /\ tmpdir' = tmpdir
                /\ pc' = "done"
                /\ result' = ErrorResult("outer", "ApiError")
    /\ UNCHANGED <<url, gen, parsed, tree, files, todo, code_files, sections>>

\* lines 116-136 and 309-316
DownloadRepoZip ==
    /\ pc = "download_zip"
    /\ \E outcome \in HttpOutcomes \cup {"write"} :
        /\ requests' = Append(requests,
                Request("zip", parsed.user \o <<Slash>> \o parsed.repo
                               \o <<Slash, default_branch>>,
                        outcome \in {"ok", "write"}, outcome))
        /\ IF outcome = "ok"
           THEN /\ pc' = "extract_zip"
                /\ result' = result
           ELSE /\ pc' = "done"
                /\ result' = ErrorResult("inner",
                                IF outcome = "write" THEN "OSError"
                                ELSE "ApiError")
    /\ tmpdir' = ExitTmp(tmpdir, pc')
    /\ UNCHANGED <<url, gen, parsed, default_branch, tree, files, todo,
                   code_files, sections>>

LocalEntry(root_dir, f) ==
    LET filename == Basename(f.rel)
        dirpath == IF Dirname(f.rel) = <<>> THEN root_dir
                   ELSE PathJoin(root_dir, Dirname(f.rel))
        full_path == PathJoin(dirpath, filename)
    IN  [rel |-> Relpath(full_path, root_dir),
         src |-> [scheme |-> "", path |-> full_path]]

\* lines 155-173
FindCodeFilesRepo(root_dir, fs, extensions) ==
    LET sel == SelectSeq(fs, LAMBDA f :
                   Lower(Splitext(Basename(f.rel))[2]) \in extensions)
    IN  [i \in 1..Len(sel) |-> LocalEntry(root_dir, sel[i])]

\* lines 138-153 and 318-333
ExtractAndFind ==
    /\ pc = "extract_zip"
    /\ \E outcome \in {"ok", "badzip", "unexpected"}, archive \in Archives :
        IF outcome = "badzip"
        THEN /\ archive = <<>>
             /\ files' = files
             /\ code_files' = code_files
             /\ pc' = "done"
             /\ result' = ErrorResult("inner", "BadZipFile")
        ELSE /\ files' = archive
             /\ IF outcome = "unexpected"
                THEN /\ code_files' = code_files
                     /\ pc' = "done"
                     /\ result' = ErrorResult("outer", "Exception")
                ELSE /\ code_files' = FindCodeFilesRepo(ExtractRoot, archive,
                                                        supported_extensions)
                     /\ IF code_files' = <<>>
                        THEN /\ pc' = "done"
                             /\ result' = MessageResult("no code files")
                        ELSE /\ pc' = "render"
                             /\ result' = result
    /\ tmpdir' = ExitTmp(tmpdir, pc')
    /\ UNCHANGED <<url, gen, parsed, default_branch, requests, tree, todo,
                   sections>>

(***************************************************************************)
(* Directory mode: fetch_code_from_directory (lines 175-217, 339-354)      *)
(*                                                                         *)
(* The recursion is unfolded into the sequence todo of the items that the  *)
(* active calls still have to visit, innermost call first.  Each item      *)
(* carries directory_path of the call whose response listed it (parent).  *)
(***************************************************************************)
AcceptFileAnyExt(item, extensions) == item.type = "file"

\* lines 205-208
AcceptFile(item, extensions) ==
    /\ item.type = "file"
    /\ Lower(Splitext(item.name)[2]) \in extensions

\* lines 209-210
RemoteEntry(item) ==
    [rel |-> Relpath(item.path, item.parent),
     src |-> [scheme |-> "https", path |-> item.path]]

\* lines 204-211: visit items up to the next subdirectory
RECURSIVE Drain(_, _, _)
Drain(td, cf, extensions) ==
    IF td = <<>> \/ Head(td).type = "dir" THEN <<td, cf>>
    ELSE IF AcceptFile(Head(td), extensions)
    THEN Drain(Tail(td), Append(cf, RemoteEntry(Head(td))), extensions)
    ELSE Drain(Tail(td), cf, extensions)

RaiseInFetchSkip(td) == Tail(td)

\* lines 198 and 213-216: an exception in a call unwinds every active call
RaiseInFetch(td) == <<>>

\* what the contents API may answer to a request for call.path
DirResponses(call) ==
    {[kind |-> k, data |-> <<>>] : k \in {"status", "transport"}}
    \cup (IF call.type = "call"
          THEN {[kind |-> k, data |-> <<>>] : k \in {"file", "other"}}
          ELSE {})
    \cup (IF call.path \in DOMAIN tree
          THEN {[kind |-> "list", data |-> tree[call.path]]}
          ELSE {[kind |-> "list", data |-> L] :
                    L \in Listings(call.path, MaxDirs - DirCount)})

FetchCodeFromDirectory ==
    /\ pc = "fetch_dir"
    /\ todo # <<>>
    /\ LET call == Head(todo)
       IN  \E resp \in DirResponses(call) :
        /\ requests' = Append(requests,
                Request("contents", call.path,
                        resp.kind \notin {"status", "transport"}, resp.kind))
        /\ tree' = IF resp.kind = "list" /\ call.path \notin DOMAIN tree
                   THEN (call.path :> resp.data) @@ tree
                   ELSE tree
        /\ LET raised == resp.kind \in {"status", "transport", "other"}
               rest == IF raised THEN RaiseInFetch(todo)
                       ELSE resp.data \o Tail(todo)
               drained == Drain(rest, code_files, supported_extensions)
           IN  IF raised /\ rest = <<>>
               THEN /\ todo' = <<>>
                    /\ code_files' = code_files
                    /\ pc' = "done"
                    /\ result' = ErrorResult("inner",
                                    IF resp.kind = "other" THEN "TypeError"
                                    ELSE "ApiError")
               ELSE /\ todo' = drained[1]
                    /\ code_files' = drained[2]
                    /\ IF todo' # <<>>
                       THEN pc' = "fetch_dir" /\ result' = result
                       ELSE IF code_files' = <<>>
                       THEN /\ pc' = "done"
                            /\ result' = MessageResult("no code files")
                       ELSE pc' = "render" /\ result' = result
    /\ UNCHANGED <<url, gen, parsed, default_branch, tmpdir, files, sections>>

(***************************************************************************)
(* File mode: fetch_single_file (lines 219-242, 364-377)                   *)
(***************************************************************************)
FetchSingleFile ==
    /\ pc = "fetch_file"
    /\ \E resp \in {"status", "transport", "list", "other", "file"} :
        /\ requests' = Append(requests,
                Request("contents", parsed.path,
                        resp \notin {"status", "transport"}, resp))
        /\ LET name == Basename(parsed.path)
               file_ext == Lower(Splitext(name)[2])
           IN  CASE resp \in {"status", "transport"} ->
                    /\ code_files' = code_files
                    /\ pc' = "done"
                    /\ result' = ErrorResult("inner", "ApiError")
                 [] resp = "list" ->
                    /\ code_files' = code_files
                    /\ pc' = "done"
                    /\ result' = ErrorResult("inner", "AttributeError")
                 [] resp = "other" ->
                    /\ code_files' = code_files
                    /\ pc' = "done"
                    /\ result' = ErrorResult("inner", "NotAFile")
                 [] resp = "file" /\ file_ext \notin DOMAIN language_mapping ->
                    /\ code_files' = code_files
                    /\ pc' = "done"
                    /\ result' = MessageResult("unsupported extension")
                 [] OTHER ->
                    /\ code_files' =
                           <<[rel |-> name,
                              src |-> [scheme |-> "https",
                                       path |-> parsed.path]]>>
                    /\ pc' = "render"
                    /\ result' = result
    /\ UNCHANGED <<url, gen, parsed, default_branch, tree, tmpdir, files,
                   todo, sections>>

(***************************************************************************)
(* generate_markdown (lines 244-293), one entry per step                   *)
(***************************************************************************)
\* base_path argument of the three calls (lines 336, 358, 381)
BasePath ==
    CASE parsed.type = "dir" -> parsed.path
      [] parsed.type = "file" -> Dirname(parsed.path)
      [] OTHER -> <<>>

Text(path) == [kind |-> "text", of |-> path]

Placeholder(why) == [kind |-> "placeholder", of |-> <<why>>]

Raised(why) == [kind |-> "raise", of |-> <<why>>]

RemoteContentUncaught(outcome, path) ==
    CASE outcome = "ok" -> Text(path)
      [] outcome = "status" -> Placeholder("HTTP status")
      [] OTHER -> Raised("RequestException")

\* lines 277-283 and 288-289
RemoteContent(outcome, path) ==
    CASE outcome = "ok" -> Text(path)
      [] outcome = "status" -> Placeholder("HTTP status")
      [] OTHER -> Placeholder("RequestException")

EncOf(path) ==
    LET i == CHOOSE k \in 1..Len(files) :
                 LocalEntry(ExtractRoot, files[k]).src.path = path
    IN  files[i].enc

\* lines 286-289: open(..., encoding="utf-8") and read
LocalContent(t, path) ==
    IF t # "exists" THEN Placeholder("FileNotFoundError")
    ELSE IF EncOf(path) = "utf8" THEN Text(path)
    ELSE Placeholder("UnicodeDecodeError")

Section(e, content, outcome, t) ==
    LET file_name == Basename(e.rel)
        file_dir == Dirname(e.rel)
        ext == Lower(Splitext(file_name)[2])
    IN  [name |-> file_name,
         dir |-> PathJoin(BasePath, file_dir),
         lang |-> IF ext \in DOMAIN language_mapping
                  THEN language_mapping[ext] ELSE "",
         content |-> content,
         src |-> e.src,
         outcome |-> outcome,
         tmp |-> t]

GenerateMarkdownStep ==
    /\ pc = "render"
    /\ Len(sections) < Len(code_files)
    /\ LET e == code_files[Len(sections) + 1]
           remote == e.src.scheme \in {"http", "https"}
       IN  \E outcome \in IF remote THEN HttpOutcomes ELSE {"read"} :
            LET content == IF remote THEN RemoteContent(outcome, e.src.path)
                           ELSE LocalContent(tmpdir, e.src.path)
            IN  /\ requests' = IF remote
                               THEN Append(requests,
                                        Request("download", e.src.path,
                                                outcome = "ok", outcome))
                               ELSE requests
                /\ IF content.kind = "raise"
                   THEN /\ sections' = sections
                        /\ pc' = "done"
                        /\ result' = ErrorResult("outer", content.of[1])
                   ELSE /\ sections' = Append(sections,
                                Section(e, content, outcome, tmpdir))
                        /\ IF Len(sections') = Len(code_files)
                           THEN pc' = "done" /\ result' = MarkdownResult
                           ELSE pc' = "render" /\ result' = result
    /\ tmpdir' = ExitTmp(tmpdir, pc')
    /\ UNCHANGED <<url, gen, parsed, default_branch, tree, files, todo,
                   code_files>>

(***************************************************************************)
(* The whole of fetch_github_code on a handful of URLs                     *)
(***************************************************************************)
SampleParts ==
    {<<<<"a">>, <<"r", ".git">>>>,
     <<<<"a">>, <<"r">>, <<"tree">>, <<"main">>>>,
     <<<<"a">>, <<"r">>, <<"tree">>, <<"main">>, <<"src">>>>,
     <<<<"a">>, <<"r">>, <<"blob">>, <<"main">>, <<"src">>, X_PY>>,
     <<<<"a">>, <<"r">>, <<"blob">>, <<"main">>, Z_EXE>>,
     <<<<"a">>, <<"r">>, <<"blob">>, <<"main">>, <<"src">>>>,
     <<<<"a">>>>}

SampleGens ==
    {[prefix |-> HttpsGithub, parts |-> ps, trail |-> <<>>] :
        ps \in SampleParts}
    \cup {[prefix |-> SshPrefix, parts |-> <<<<"a">>, <<"r", ".git">>>>,
           trail |-> <<>>],
          [prefix |-> HttpsGitlab, parts |-> <<<<"a">>, <<"r">>>>,
           trail |-> <<>>]}

Init == InitWith(SampleGens)

Next ==
    \/ Parse
    \/ GetDefaultBranch
    \/ DownloadRepoZip
    \/ ExtractAndFind
    \/ FetchCodeFromDirectory
    \/ FetchSingleFile
    \/ GenerateMarkdownStep

Spec == Init /\ [][Next]_vars

(***************************************************************************)
(* What the pieces of a URL say its path segments are: each piece is cut   *)
(* at its encoded slashes and then decoded                                 *)
(***************************************************************************)
RECURSIVE CutAt(_, _)
CutAt(s, sep) ==
    IF s = <<>> THEN <<<<>>>>
    ELSE LET rest == CutAt(Tail(s), sep)
         IN  IF Head(s) = sep THEN <<<<>>>> \o rest
             ELSE <<<<Head(s)>> \o Head(rest)>> \o Tail(rest)

PlainTok(t) == IF t = "%41" THEN "A" ELSE t

Plain(s) == [i \in 1..Len(s) |-> PlainTok(s[i])]

RECURSIVE ExpectedSegs(_)
ExpectedSegs(ps) ==
    IF ps = <<>> THEN <<>>
    ELSE LET cut == CutAt(Head(ps), "%2F")
         IN  [i \in 1..Len(cut) |-> Plain(cut[i])] \o ExpectedSegs(Tail(ps))

Segs == ExpectedSegs(gen.parts)

WithoutGit(s) == IF s # <<>> /\ s[Len(s)] = ".git" THEN SubSeq(s, 1, Len(s) - 1) ELSE s

\* an HTTPS github.com URL whose decoded path starts and ends with a
\* non-empty segment
HttpsForm ==
    /\ gen.prefix = HttpsGithub
    /\ Len(Segs) >= 2
    /\ Segs[1] # <<>>
    /\ Segs[Len(Segs)] # <<>>

ExpectedMode ==
    IF Len(Segs) = 2 THEN "repo"
    ELSE IF Len(Segs) >= 4 /\ Segs[3] = <<"tree">> THEN "dir"
    ELSE IF Len(Segs) >= 4 /\ Segs[3] = <<"blob">> THEN "file"
    ELSE "none"

ExpectedBranch == IF ExpectedMode = "repo" THEN <<>> ELSE Segs[4]

ExpectedPath ==
    IF ExpectedMode = "repo" THEN <<>>
    ELSE Join(SubSeq(Segs, 5, Len(Segs)))

\* C1 (as stated): for an HTTPS github.com URL of one of the three forms,
\* parse_github_url yields the matching mode, branch and decoded path, and
\* owner and repo are the first two segments.
C1_AsStated ==
    (pc # "start" /\ HttpsForm /\ ExpectedMode # "none") =>
        parsed = ParseOk(Segs[1], Segs[2], ExpectedMode, ExpectedBranch,
                         ExpectedPath)

\* C1 (amended): as C1, except that repo is the second segment with a
\* trailing ".git" removed.
C1_Parse ==
    (pc # "start" /\ HttpsForm /\ ExpectedMode # "none") =>
        parsed = ParseOk(Segs[1], WithoutGit(Segs[2]), ExpectedMode,
                         ExpectedBranch, ExpectedPath)

C1_Witness ==
    /\ pc # "start"
    /\ HttpsForm
    /\ ExpectedMode = "dir"
    /\ Len(gen.parts) = 5
    /\ gen.parts[5] = <<"b", "%2F", "%41">>
    /\ gen.parts[2] = <<"r", ".git">>
    /\ parsed.ok
    /\ parsed.path = <<"b", "/", "A">>

NonEmptyCount == Len(SelectSeq(Segs, LAMBDA c : c # <<>>))

NotSshForm ==
    \/ gen.prefix # SshPrefix
    \/ /\ Len(gen.parts) >= 3
       /\ \A i \in 1..Len(gen.parts) : gen.parts[i] # <<>>

HostIsGithub == gen.prefix \in {HttpsGithub, HttpGithub}

\* C2: a URL that is not of the SSH form and whose host is not exactly
\* github.com, or whose path has fewer than two segments, fails with
\* InvalidURL; fetch_github_code returns an error string and has issued no
\* external request.
C2_InvalidUrl ==
    (pc # "start" /\ NotSshForm /\ (~HostIsGithub \/ NonEmptyCount < 2)) =>
        /\ ~parsed.ok
        /\ parsed.err \in InvalidURL
        /\ pc = "done"
        /\ result = ErrorResult("parse", parsed.err)
        /\ requests = <<>>

C2_Witness ==
    /\ pc = "done"
    /\ gen.prefix = HttpsWwwGithub
    /\ gen.parts = <<<<"a">>, <<"a">>>>
    /\ result.kind = "error"
    /\ result.text = ErrNotGithub

(***************************************************************************)
(* Properties of the fetch and render stages                               *)
(***************************************************************************)
DirMode == parsed.ok /\ parsed.type = "dir"

FileMode == parsed.ok /\ parsed.type = "file"

RepoMode == parsed.ok /\ parsed.type = "repo"

ContentsCount(p) ==
    Cardinality({i \in 1..Len(requests) :
                    requests[i].kind = "contents" /\ requests[i].target = p})

DownloadCount ==
    Cardinality({i \in 1..Len(requests) : requests[i].kind = "download"})

ListedDirs ==
    {tree[pi[1]][pi[2]].path :
        pi \in {qi \in (DOMAIN tree) \X (1..4) :
                   /\ qi[2] <= Len(tree[qi[1]])
                   /\ tree[qi[1]][qi[2]].type = "dir"}}

ListedNames ==
    {tree[pi[1]][pi[2]].name :
        pi \in {qi \in (DOMAIN tree) \X (1..4) : qi[2] <= Len(tree[qi[1]])}}

AllContentsOk ==
    \A i \in 1..Len(requests) :
        requests[i].kind = "contents" => requests[i].resp = "list"

ExtOf(path) == Lower(Splitext(Basename(path))[2])

\* C3: in Directory mode, when every contents request succeeds, no emitted
\* entry has an extension outside the language table, no subdirectory is
\* requested twice, and once the traversal is over every subdirectory listed
\* by a response has been requested exactly once.
C3_Traversal ==
    (DirMode /\ AllContentsOk) =>
        /\ \A i \in 1..Len(code_files) :
               ExtOf(code_files[i].src.path) \in DOMAIN language_mapping
        /\ \A d \in ListedDirs \cup {parsed.path} : ContentsCount(d) <= 1
        /\ todo = <<>> =>
               \A d \in ListedDirs \cup {parsed.path} : ContentsCount(d) = 1

C3_Witness ==
    /\ DirMode
    /\ AllContentsOk
    /\ pc = "done"
    /\ result.kind = "markdown"
    /\ Cardinality(ListedDirs) = 2
    /\ \E d \in ListedDirs : Len(Components(d)) = Len(Components(parsed.path)) + 2
    /\ Z_EXE \in ListedNames
    /\ Len(code_files) >= 2
    /\ \A d \in ListedDirs : ContentsCount(d) = 1

\* C4: in Directory mode every entry's relative path is the file's
\* repository path relative to the originally requested directory, so the
\* displayed directory is the file's true directory.
C4_RelativeToRequested ==
    DirMode =>
        /\ \A i \in 1..Len(code_files) :
               Components(parsed.path) \o Components(code_files[i].rel)
                   = Components(code_files[i].src.path)
        /\ \A i \in 1..Len(sections) :
               Components(sections[i].dir)
                   = Components(Dirname(sections[i].src.path))

FetchKinds == {"repo_meta", "zip", "contents"}

\* C5: a failed default-branch lookup, archive download or contents request
\* is the last external request of the invocation; the invocation is over,
\* nothing has been rendered, and the return value is an error string.
C5_FirstFailureEnds ==
    /\ \A i \in 1..Len(requests) :
           (requests[i].kind \in FetchKinds /\ ~requests[i].ok) =>
               /\ i = Len(requests)
               /\ pc = "done"
               /\ result.kind = "error"
               /\ sections = <<>>
    /\ result.kind = "error" => (pc = "done" /\ sections = <<>>)

C5_Witness ==
    /\ DirMode
    /\ pc = "done"
    /\ result.kind = "error"
    /\ Len(requests) >= 2
    /\ ~requests[Len(requests)].ok
    /\ requests[Len(requests)].kind = "contents"
    /\ code_files # <<>>
    /\ sections = <<>>

\* C6: in every state in which fetch_github_code has returned, a temporary
\* directory that was created has been removed.
C6_TmpdirRemoved ==
    (pc = "done" /\ tmpdir # "none") => tmpdir = "removed"

C6_Witness ==
    /\ RepoMode
    /\ pc = "done"
    /\ result = ErrorResult("outer", "Exception")
    /\ files # <<>>
    /\ tmpdir = "removed"

\* C7: generate_markdown never propagates an error: every entry read so far
\* has its own section, a failed read gives a placeholder, a successful one
\* the file's text, and once rendering is over there is one section per
\* entry and the result is the Markdown.
C7_RenderNeverRaises ==
    /\ (pc = "done" /\ (sections # <<>> \/ DownloadCount > 0)) =>
           (result.kind = "markdown" /\ Len(sections) = Len(code_files))
    /\ ~RepoMode => DownloadCount = Len(sections)
    /\ \A i \in 1..Len(sections) :
           /\ sections[i].src = code_files[i].src
           /\ sections[i].name = Basename(code_files[i].src.path)
           /\ sections[i].outcome = "ok" =>
                  sections[i].content = Text(code_files[i].src.path)
           /\ sections[i].outcome \in {"status", "transport"} =>
                  sections[i].content.kind = "placeholder"
           /\ (sections[i].outcome = "read"
                  /\ EncOf(code_files[i].src.path) # "utf8") =>
                  sections[i].content.kind = "placeholder"

C7_Witness ==
    /\ pc = "done"
    /\ result.kind = "markdown"
    /\ Len(sections) = 2
    /\ sections[1].outcome = "transport"
    /\ sections[1].content.kind = "placeholder"
    /\ sections[2].outcome = "ok"
    /\ sections[2].content = Text(code_files[2].src.path)

\* C8: a local file whose bytes are not valid UTF-8 is read with a
\* single-byte encoding, so its section holds the file's text.
C8_LegacyFallback ==
    \A i \in 1..Len(sections) :
        (/\ sections[i].src.scheme = ""
         /\ sections[i].tmp = "exists"
         /\ EncOf(sections[i].src.path) = "latin1") =>
            sections[i].content = Text(sections[i].src.path)

\* C9: in File mode a section is rendered only if the contents request
\* succeeded with an entry of type file and a supported extension, and then
\* exactly one; a path that is not a file gives the NotAFile error; an
\* unsupported extension gives the unsupported-extension message, no section
\* and no download.
C9_FileMode ==
    (FileMode /\ requests # <<>>) =>
        /\ sections # <<>> =>
               /\ requests[1].resp = "file"
               /\ ExtOf(parsed.path) \in DOMAIN language_mapping
               /\ Len(sections) = 1
        /\ requests[1].resp \in {"list", "other"} =>
               result = ErrorResult("inner", "NotAFile")
        /\ (requests[1].resp = "file"
               /\ ExtOf(parsed.path) \notin DOMAIN language_mapping) =>
               /\ result = MessageResult("unsupported extension")
               /\ sections = <<>>
               /\ DownloadCount = 0

\* C10: in Repository mode every local file is read while the temporary
\* directory exists; the directory is removed only when the function returns.
C10_ReadsBeforeRemoval ==
    /\ \A i \in 1..Len(sections) :
           sections[i].src.scheme = "" =>
               /\ sections[i].tmp = "exists"
               /\ sections[i].content # Placeholder("FileNotFoundError")
    /\ tmpdir = "removed" => pc = "done"

C10_Witness ==
    /\ RepoMode
    /\ pc = "done"
    /\ result.kind = "markdown"
    /\ Len(sections) = 2
    /\ \A i \in 1..2 : sections[i].content = Text(code_files[i].src.path)
    /\ tmpdir = "removed"

====
